---- MODULE Spec2Model ----
(***************************************************************************)
(* Model of src/app.py: the in-memory task store, expense store and budget *)
(* ledger of the Flask trip dashboard, with requests handled one at a      *)
(* time.  Python strings are sequences of one-character strings, a form    *)
(* field is present or absent, and a Python float is the double nearest to *)
(* a decimal mant / 10^scale (or an infinity, or a NaN).                   *)
(***************************************************************************)
EXTENDS Integers, Sequences, FiniteSets, TLC

VARIABLES
    tasks,               \* the list `tasks`, most recent first
    task_id_counter,     \* the int `task_id_counter`
    expenses,            \* the list `expenses`, most recent first
    expense_id_counter,  \* the int `expense_id_counter`
    total_trip_budget,   \* the float `total_trip_budget`
    last,                \* history: the request served last, as it was sent
    issued,              \* history: the ids each store has handed out so far
    nreq,                \* history: the number of requests served
    sg_pc,               \* get_suggestions: where the running call is
    sg_request,          \* get_suggestions: the request body of the call
    sg_i,                \* get_suggestions: the loop variable `i`
    sg_delay,            \* get_suggestions: the local `delay`, in seconds
    sg_events,           \* history: the posts, responses and sleeps of the call
    sg_result,           \* get_suggestions: what the call responded with
    cc_pc,               \* concurrent requests: where each thread is
    cc_loc,              \* concurrent requests: the locals of each thread
    cc_raced,            \* history: did requests on a store overlap
    cc_deleted           \* history: the ids that deletes were sent for

store_vars == <<tasks, task_id_counter, expenses, expense_id_counter,
                total_trip_budget, last, issued, nreq>>

sg_vars == <<sg_pc, sg_request, sg_i, sg_delay, sg_events, sg_result>>

cc_vars == <<cc_pc, cc_loc, cc_raced, cc_deleted>>

vars == <<tasks, task_id_counter, expenses, expense_id_counter,
          total_trip_budget, last, issued, nreq,
          sg_pc, sg_request, sg_i, sg_delay, sg_events, sg_result,
          cc_pc, cc_loc, cc_raced, cc_deleted>>

\* The two threads that serve requests at the same time.
Procs == {1, 2}

\* The locals of a thread that serves no request.
NoLocals ==
    [store |-> "none", fields |-> <<>>, rec |-> <<>>, id |-> <<>>,
     shared |-> FALSE, lst |-> <<>>, k |-> 0, acc |-> <<>>, tmp |-> 0]

\* Number of requests served in one explored run.
MaxRequests == 3

-----------------------------------------------------------------------------
(* Strings *)

WhiteSpace == {" "}

DigitChars == <<"0", "1", "2", "3", "4", "5", "6", "7", "8", "9">>

IsDigit(c) == \E i \in 1..10 : DigitChars[i] = c

DigitVal(c) == (CHOOSE i \in 1..10 : DigitChars[i] = c) - 1

RECURSIVE LStrip(_)
LStrip(s) == IF s # <<>> /\ Head(s) \in WhiteSpace THEN LStrip(Tail(s)) ELSE s

RECURSIVE RStrip(_)
RStrip(s) ==
    IF s # <<>> /\ s[Len(s)] \in WhiteSpace
    THEN RStrip(SubSeq(s, 1, Len(s) - 1))
    ELSE s

\* A mutant of Strip: only leading whitespace is removed.
StripLeftOnly(s) == LStrip(s)

\* str.strip(): leading and trailing whitespace removed, the inside kept.
Strip(s) == RStrip(LStrip(s))

RECURSIVE StrNat(_)
StrNat(n) ==
    IF n < 10 THEN <<DigitChars[n + 1]>>
    ELSE StrNat(n \div 10) \o <<DigitChars[(n % 10) + 1]>>

\* str(n) of a non-negative int.
Str(n) == StrNat(n)

\* A mutant of Truthy: the test is `is not None`, true of every str.
TruthyNotNone(s) == TRUE

\* Truthiness of a Python str: non-empty.
Truthy(s) == s # <<>>

-----------------------------------------------------------------------------
(* Floats *)

ValueError == [kind |-> "ValueError", neg |-> FALSE, mant |-> 0, scale |-> 0]
NaN == [kind |-> "nan", neg |-> FALSE, mant |-> 0, scale |-> 0]
Inf(neg) == [kind |-> "inf", neg |-> neg, mant |-> 0, scale |-> 0]

RECURSIVE Pow10(_)
Pow10(k) == IF k = 0 THEN 1 ELSE 10 * Pow10(k - 1)

RECURSIVE Normalize(_, _, _)
\* The decimal mant / 10^scale without trailing zeros in its fraction.
Normalize(neg, mant, scale) ==
    IF scale > 0 /\ mant % 10 = 0
    THEN Normalize(neg, mant \div 10, scale - 1)
    ELSE [kind |-> "fin", neg |-> neg, mant |-> mant, scale |-> scale]

RECURSIVE BitLen(_)
BitLen(n) == IF n = 0 THEN 0 ELSE 1 + BitLen(n \div 2)

RECURSIVE FracBits(_, _, _, _, _)
\* Binary expansion of r / den, keeping `left` more significand bits; the
\* result is the sign of (nearest double - exact value), ties to even.
FracBits(r, den, left, started, lastbit) ==
    IF r = 0 THEN 0
    ELSE IF left = 0
    THEN IF 2 * r < den THEN -1
         ELSE IF 2 * r > den THEN 1
         ELSE IF lastbit = 0 THEN -1 ELSE 1
    ELSE LET bit == IF 2 * r >= den THEN 1 ELSE 0
             r2 == 2 * r - bit * den
         IN  IF ~started /\ bit = 0
             THEN FracBits(r2, den, left, FALSE, 0)
             ELSE FracBits(r2, den, left - 1, TRUE, bit)

\* Sign of the representation error of the double nearest to mant / 10^scale
\* (53 significand bits).
DoubleErr(mant, scale) ==
    LET den == Pow10(scale)
        ip  == mant \div den
    IN  FracBits(mant % den, den, 53 - BitLen(ip), ip > 0, ip % 2)

RECURSIVE DigitsVal(_)
DigitsVal(s) ==
    IF s = <<>> THEN 0
    ELSE 10 * DigitsVal(SubSeq(s, 1, Len(s) - 1)) + DigitVal(s[Len(s)])

AllDigits(s) == \A i \in 1..Len(s) : IsDigit(s[i])

DotIndex(s) ==
    IF \E i \in 1..Len(s) : s[i] = "."
    THEN CHOOSE i \in 1..Len(s) : s[i] = "." /\ \A j \in 1..(i - 1) : s[j] # "."
    ELSE 0

\* float(s) for s over the characters digits . + - space a-z: surrounding
\* whitespace is ignored, then [sign] digits [. digits] | [sign] . digits |
\* [sign] inf | [sign] nan; anything else raises ValueError.
ParseFloat(s) ==
    LET t      == Strip(s)
        signed == t # <<>> /\ t[1] \in {"+", "-"}
        neg    == t # <<>> /\ t[1] = "-"
        body   == IF signed THEN Tail(t) ELSE t
        dot    == DotIndex(body)
        ip     == IF dot = 0 THEN body ELSE SubSeq(body, 1, dot - 1)
        fp     == IF dot = 0 THEN <<>> ELSE SubSeq(body, dot + 1, Len(body))
    IN  IF body = <<"i", "n", "f">> THEN Inf(neg)
        ELSE IF body = <<"n", "a", "n">> THEN NaN
        ELSE IF AllDigits(ip) /\ AllDigits(fp) /\ Len(ip) + Len(fp) > 0
        THEN Normalize(neg, DigitsVal(ip \o fp), Len(fp))
        ELSE ValueError

\* A mutant of GeZero: x > 0.
GtZero(v) ==
    CASE v.kind = "nan" -> FALSE
      [] v.kind = "inf" -> ~v.neg
      [] OTHER          -> ~v.neg /\ v.mant > 0

\* A mutant of GeZero: the sign is not checked.
NoSignCheck(v) == TRUE

\* x >= 0 on floats: false for NaN, true for -0.0.
GeZero(v) ==
    CASE v.kind = "nan" -> FALSE
      [] v.kind = "inf" -> ~v.neg
      [] OTHER          -> ~v.neg \/ v.mant = 0

\* A mutant of Hundredths: the digits after the second are cut off.
HundredthsTruncated(v) ==
    IF v.scale <= 2 THEN v.mant * Pow10(2 - v.scale)
    ELSE v.mant \div Pow10(v.scale - 2)

\* The value in hundredths after correct rounding of the double to two
\* decimals (round-half-even on the exact binary value).
Hundredths(v) ==
    IF v.scale <= 2 THEN v.mant * Pow10(2 - v.scale)
    ELSE LET unit == Pow10(v.scale - 2)
             q    == v.mant \div unit
             rem  == v.mant % unit
             e    == DoubleErr(v.mant, v.scale)
         IN  IF 2 * rem < unit THEN q
             ELSE IF 2 * rem > unit THEN q + 1
             ELSE IF e < 0 THEN q
             ELSE IF e > 0 THEN q + 1
             ELSE IF q % 2 = 0 THEN q ELSE q + 1

\* f"{v:.2f}"
Format2(v) ==
    LET sign == IF v.neg THEN <<"-">> ELSE <<>>
        h    == Hundredths(v)
    IN  CASE v.kind = "nan" -> <<"n", "a", "n">>
          [] v.kind = "inf" -> sign \o <<"i", "n", "f">>
          [] OTHER          -> sign \o Str(h \div 100) \o <<".">>
                               \o <<DigitChars[((h \div 10) % 10) + 1]>>
                               \o <<DigitChars[(h % 10) + 1]>>

-----------------------------------------------------------------------------
(* Requests *)

Field(s) == [present |-> TRUE, val |-> s]
Absent == [present |-> FALSE, val |-> <<>>]

\* request.form.get(name, default)
FormGet(f, default) == IF f.present THEN f.val ELSE default

TaskTexts == {Absent, Field(<<>>), Field(<<" ">>), Field(<<" ", "a", " ", "b", " ">>)}
TaskLocations == {Absent, Field(<<" ", "x">>)}
TaskIds == {<<"1">>, <<"2">>, <<"0", "1">>, <<"x">>}

Init ==
    /\ tasks = <<>>
    /\ task_id_counter = 1
    /\ expenses = <<>>
    /\ expense_id_counter = 1
    /\ total_trip_budget = Normalize(FALSE, 0, 0)
    /\ last = [op |-> "none"]
    /\ issued = [tasks |-> {}, expenses |-> {}]
    /\ nreq = 0
    /\ sg_pc = "idle"
    /\ sg_request = [json |-> TRUE, dict |-> TRUE, query |-> <<>>]
    /\ sg_i = 0
    /\ sg_delay = 1
    /\ sg_events = <<>>
    /\ sg_result = [t |-> "none", items |-> <<>>]
    /\ cc_pc = [p \in Procs |-> "idle"]
    /\ cc_loc = [p \in Procs |-> NoLocals]
    /\ cc_raced = [tasks |-> FALSE, expenses |-> FALSE]
    /\ cc_deleted = [tasks |-> {}, expenses |-> {}]

\* A mutant of InsertFront: the record is appended.
InsertBack(list, x) == list \o <<x>>

\* list.insert(0, x)
InsertFront(list, x) == <<x>> \o list

\* A mutant of Increment: the counter is left as it is.
NoIncrement(n) == n

\* counter += 1
Increment(n) == n + 1

\* A mutant of FilterTasks: the ids are compared as int against str, and
\* never match.
FilterTasksNoMatch(list, task_id) == list

\* [task for task in tasks if task.get('task_id') != task_id]
FilterTasks(list, task_id) == SelectSeq(list, LAMBDA task : task.task_id # task_id)

\* A mutant of ExceptValueError: the clause names another exception.
ExceptKeyError(exc) == exc = "KeyError"

\* except ValueError:
ExceptValueError(exc) == exc = "ValueError"

\* The response of a handler in which exc was raised ("none" when nothing
\* was): redirect(url_for('index')), or the error page of an exception that
\* no except clause caught.
Response(exc) == IF exc = "none" \/ ExceptValueError(exc) THEN 302 ELSE 500

add_task ==
    /\ nreq < MaxRequests
    /\ \E f_text \in TaskTexts, f_loc \in TaskLocations :
        LET task_text     == Strip(FormGet(f_text, <<>>))
            location_text == Strip(FormGet(f_loc, <<>>))
        IN  /\ IF Truthy(task_text)
               THEN /\ tasks' = InsertFront(tasks,
                                    [task_id  |-> Str(task_id_counter),
                                     text     |-> task_text,
                                     location |-> location_text])
                    /\ task_id_counter' = Increment(task_id_counter)
                    /\ issued' = [issued EXCEPT !.tasks = @ \cup {Str(task_id_counter)}]
               ELSE UNCHANGED <<tasks, task_id_counter, issued>>
            /\ last' = [op |-> "add_task", text |-> f_text, location |-> f_loc,
                        status |-> Response("none")]
    /\ nreq' = nreq + 1
    /\ UNCHANGED <<expenses, expense_id_counter, total_trip_budget>>
    /\ UNCHANGED sg_vars
    /\ UNCHANGED cc_vars

\* A mutant of delete_task: the comprehension is run on, and bound to, the
\* expense list.
delete_task_from_expenses ==
    /\ nreq < MaxRequests
    /\ \E task_id \in TaskIds :
        /\ expenses' = SelectSeq(expenses, LAMBDA e : e.expense_id # task_id)
        /\ last' = [op |-> "delete_task", id |-> task_id,
                    status |-> Response("none")]
    /\ nreq' = nreq + 1
    /\ UNCHANGED <<tasks, task_id_counter, expense_id_counter, total_trip_budget, issued>>
    /\ UNCHANGED sg_vars
    /\ UNCHANGED cc_vars

delete_task ==
    /\ nreq < MaxRequests
    /\ \E task_id \in TaskIds :
        /\ tasks' = FilterTasks(tasks, task_id)
        /\ last' = [op |-> "delete_task", id |-> task_id,
                    status |-> Response("none")]
    /\ nreq' = nreq + 1
    /\ UNCHANGED <<task_id_counter, expenses, expense_id_counter, total_trip_budget, issued>>
    /\ UNCHANGED sg_vars
    /\ UNCHANGED cc_vars

ExpenseDescriptions == {Absent, Field(<<" ">>), Field(<<" ", "t">>)}
\* Amount inputs by what they denote.
AmountsNotNumber ==
    {Absent, Field(<<"1", " ", "2">>), Field(<<"n", "a", "n">>)}
AmountsNegative == {Field(<<"-", "1">>)}
AmountsGeZero ==
    {Field(<<"0">>),
     Field(<<" ", "3", ".", "5", " ">>),
     Field(<<"2", ".", "6", "7", "5">>),
     Field(<<"-", "0">>),
     Field(<<"i", "n", "f">>)}
ExpenseAmounts == AmountsNotNumber \cup AmountsNegative \cup AmountsGeZero
ExpenseCategories == {Absent, Field(<<>>), Field(<<" ">>), Field(<<"f", " ">>)}
ExpenseIds == {<<"1">>, <<"2">>, <<"0", "1">>, <<"x">>}

\* Budget inputs by what they denote.
BudgetsNotNumber ==
    {Field(<<"a", "b", "c">>), Field(<<>>), Field(<<"n", "a", "n">>)}
BudgetsNegative == {Field(<<"-", "1">>), Field(<<"-", "i", "n", "f">>)}
BudgetsGeZero ==
    {Field(<<" ", "2", "5", "0", "0">>),
     Field(<<"3", ".", "5">>),
     Field(<<"2", ".", "6", "7", "5">>),
     Field(<<"9", ".", "9", "9", "6">>),
     Field(<<"-", "0">>),
     Field(<<"i", "n", "f">>)}
BudgetInputs == {Absent} \cup BudgetsNotNumber \cup BudgetsNegative \cup BudgetsGeZero

\* [e for e in expenses if e.get('expense_id') != expense_id]
FilterExpenses(list, expense_id) ==
    SelectSeq(list, LAMBDA e : e.expense_id # expense_id)

add_expense ==
    /\ nreq < MaxRequests
    /\ \E f_desc \in ExpenseDescriptions, f_amount \in ExpenseAmounts,
          f_cat \in ExpenseCategories :
        LET description  == Strip(FormGet(f_desc, <<>>))
            amount_str   == Strip(FormGet(f_amount, <<>>))
            category     == Strip(FormGet(f_cat, <<"O", "t", "h", "e", "r">>))
            amount_float == ParseFloat(amount_str)
        IN  /\ IF amount_float.kind = "ValueError"
               THEN UNCHANGED <<expenses, expense_id_counter, issued>>
               ELSE IF Truthy(description) /\ GeZero(amount_float)
               THEN /\ expenses' = InsertFront(expenses,
                                       [expense_id  |-> Str(expense_id_counter),
                                        description |-> description,
                                        amount      |-> Format2(amount_float),
                                        category    |-> category])
                    /\ expense_id_counter' = Increment(expense_id_counter)
                    /\ issued' = [issued EXCEPT !.expenses = @ \cup {Str(expense_id_counter)}]
               ELSE UNCHANGED <<expenses, expense_id_counter, issued>>
            /\ last' = [op |-> "add_expense", description |-> f_desc,
                        amount |-> f_amount, category |-> f_cat,
                        status |-> Response(IF amount_float.kind = "ValueError"
                                            THEN "ValueError" ELSE "none")]
    /\ nreq' = nreq + 1
    /\ UNCHANGED <<tasks, task_id_counter, total_trip_budget>>
    /\ UNCHANGED sg_vars
    /\ UNCHANGED cc_vars

delete_expense ==
    /\ nreq < MaxRequests
    /\ \E expense_id \in ExpenseIds :
        /\ expenses' = FilterExpenses(expenses, expense_id)
        /\ last' = [op |-> "delete_expense", id |-> expense_id,
                    status |-> Response("none")]
    /\ nreq' = nreq + 1
    /\ UNCHANGED <<tasks, task_id_counter, expense_id_counter, total_trip_budget, issued>>
    /\ UNCHANGED sg_vars
    /\ UNCHANGED cc_vars

set_budget ==
    /\ nreq < MaxRequests
    /\ \E f_budget \in BudgetInputs :
        LET budget_str == Strip(FormGet(f_budget, <<"0", ".", "0", "0">>))
            new_budget == ParseFloat(budget_str)
        IN  /\ IF new_budget.kind # "ValueError" /\ GeZero(new_budget)
               THEN total_trip_budget' = ParseFloat(Format2(new_budget))
               ELSE UNCHANGED total_trip_budget
            /\ last' = [op |-> "set_budget", budget |-> f_budget,
                        before |-> total_trip_budget,
                        status |-> Response(IF new_budget.kind = "ValueError"
                                            THEN "ValueError" ELSE "none")]
    /\ nreq' = nreq + 1
    /\ UNCHANGED <<tasks, task_id_counter, expenses, expense_id_counter, issued>>
    /\ UNCHANGED sg_vars
    /\ UNCHANGED cc_vars

\* A float that is a whole number of hundredths, as the dashboard's sums
\* are: cents is the magnitude, and noise says that the double may differ
\* from that decimal by the rounding error of an inexact addition.
Money(v) ==
    [kind  |-> v.kind,
     neg   |-> v.neg,
     cents |-> IF v.kind = "fin" THEN v.mant * Pow10(2 - v.scale) ELSE 0,
     noise |-> FALSE]

Signed(m) == IF m.neg THEN 0 - m.cents ELSE m.cents

\* a + b on floats: infinities absorb, opposite infinities give NaN, a zero
\* sum is -0.0 only when both operands are -0.0, and the sum of two non-zero
\* terms is exact only when it cancels or both are multiples of 0.25.
FloatAdd(a, b) ==
    IF a.kind = "nan" \/ b.kind = "nan"
    THEN [kind |-> "nan", neg |-> FALSE, cents |-> 0, noise |-> FALSE]
    ELSE IF a.kind = "inf" /\ b.kind = "inf"
    THEN IF a.neg = b.neg THEN a
         ELSE [kind |-> "nan", neg |-> FALSE, cents |-> 0, noise |-> FALSE]
    ELSE IF a.kind = "inf" THEN a
    ELSE IF b.kind = "inf" THEN b
    ELSE LET s == Signed(a) + Signed(b)
         IN  [kind  |-> "fin",
              neg   |-> IF s = 0 THEN a.cents = 0 /\ b.cents = 0 /\ a.neg /\ b.neg
                        ELSE s < 0,
              cents |-> IF s < 0 THEN 0 - s ELSE s,
              noise |-> \/ a.noise
                        \/ b.noise
                        \/ /\ a.cents # 0 /\ b.cents # 0 /\ s # 0
                           /\ ~(a.cents % 25 = 0 /\ b.cents % 25 = 0)]

\* a - b on floats.
FloatSub(a, b) == FloatAdd(a, [b EXCEPT !.neg = ~b.neg])

RECURSIVE SumFloats(_, _)
\* sum(...) over the first n parsed amounts, starting from the int 0.
SumFloats(fs, n) ==
    IF n = 0 THEN [kind |-> "fin", neg |-> FALSE, cents |-> 0, noise |-> FALSE]
    ELSE FloatAdd(SumFloats(fs, n - 1), Money(fs[n]))

\* '%.2f' | format(x): the texts the template can show for x; a zero that
\* carries rounding error shows with either sign.
Render2(m) ==
    IF m.kind = "fin" /\ m.cents = 0 /\ m.noise
    THEN {<<"0", ".", "0", "0">>, <<"-", "0", ".", "0", "0">>}
    ELSE {Format2([kind |-> m.kind, neg |-> m.neg, mant |-> m.cents, scale |-> 2])}

\* GET /: the dashboard's total spent and remaining budget, as rendered.
index ==
    /\ nreq < MaxRequests
    /\ LET floats == [i \in 1..Len(expenses) |-> ParseFloat(expenses[i].amount)]
       IN  IF \E i \in 1..Len(expenses) : floats[i].kind = "ValueError"
           THEN last' = [op |-> "index", status |-> 500,
                         total |-> <<>>, remaining |-> <<>>]
           ELSE LET total_expenses   == SumFloats(floats, Len(expenses))
                    remaining_budget == FloatSub(Money(total_trip_budget),
                                                 total_expenses)
                IN  \E shown_total \in Render2(total_expenses),
                       shown_remaining \in Render2(remaining_budget) :
                        last' = [op |-> "index", status |-> 200,
                                 total |-> shown_total,
                                 remaining |-> shown_remaining]
    /\ nreq' = nreq + 1
    /\ UNCHANGED <<tasks, task_id_counter, expenses, expense_id_counter,
                   total_trip_budget, issued>>
    /\ UNCHANGED sg_vars
    /\ UNCHANGED cc_vars

Next ==
    \/ index
    \/ set_budget
    \/ add_task
    \/ delete_task
    \/ add_expense
    \/ delete_expense

Spec == Init /\ [][Next]_vars

-----------------------------------------------------------------------------
(* The suggestion gateway: POST /get_suggestions *)

\* A mutant of max_retries: one attempt more.
max_retries_plus_one == 3 + 1

\* max_retries = 3
max_retries == 3

\* The number of attempts the loop allows: range(max_retries).
Attempts == max_retries

\* JSON values: [t |-> "array", items |-> the numbers], [t |-> "object"] for
\* {}, [t |-> "number", items |-> <<n>>].
JsonArray(items) == [t |-> "array", items |-> items]
JsonObject == [t |-> "object", items |-> <<>>]
JsonNumber(n) == [t |-> "number", items |-> <<n>>]
JSONDecodeError == [t |-> "JSONDecodeError", items |-> <<>>]

CommaIndex(s) ==
    IF \E i \in 1..Len(s) : s[i] = ","
    THEN CHOOSE i \in 1..Len(s) : s[i] = "," /\ \A j \in 1..(i - 1) : s[j] # ","
    ELSE 0

RECURSIVE SplitComma(_)
SplitComma(s) ==
    LET k == CommaIndex(s)
    IN  IF k = 0 THEN <<s>>
        ELSE <<SubSeq(s, 1, k - 1)>> \o SplitComma(SubSeq(s, k + 1, Len(s)))

\* A JSON integer: digits without a leading zero.
IsJsonInt(s) == s # <<>> /\ AllDigits(s) /\ (Len(s) = 1 \/ s[1] # "0")

\* json.loads(s) for s over the characters 0-9 [ ] , { } a-z: {} | integer |
\* [ ] | [ integer , ... , integer ]; anything else raises JSONDecodeError.
JsonLoads(s) ==
    IF s = <<"{", "}">> THEN JsonObject
    ELSE IF IsJsonInt(s) THEN JsonNumber(DigitsVal(s))
    ELSE IF Len(s) >= 2 /\ s[1] = "[" /\ s[Len(s)] = "]"
    THEN LET inner  == SubSeq(s, 2, Len(s) - 1)
             pieces == SplitComma(inner)
         IN  IF inner = <<>> THEN JsonArray(<<>>)
             ELSE IF \A i \in 1..Len(pieces) : IsJsonInt(pieces[i])
             THEN JsonArray([i \in 1..Len(pieces) |-> DigitsVal(pieces[i])])
             ELSE JSONDecodeError
    ELSE JSONDecodeError

\* A dict key is absent (<<>>) or carries a value (<<v>>).
Str1(s) == [str |-> TRUE, val |-> s]
NotStr == [str |-> FALSE, val |-> <<>>]
PartOf(text) == [text |-> text]
ContentOf(parts) == [parts |-> parts]
CandidateOf(content) == [content |-> content]
BodyOf(candidates) == [json |-> TRUE, dict |-> TRUE, candidates |-> candidates]
BodyWithText(text) ==
    BodyOf(<< << CandidateOf(<< ContentOf(<< << PartOf(<<text>>) >> >>) >>) >> >>)
NoBody == [json |-> FALSE, dict |-> FALSE, candidates |-> <<>>]

\* The texts a model answer carries.
UpstreamTexts ==
    {<<"[", "1", ",", "2", "0", "]">>, <<"[", "]">>, <<"{", "}">>, <<"7">>,
     <<"[", "1", ",">>, <<"a", "b", "c">>, <<>>}

\* The bodies of HTTP 200 answers.
UpstreamBodies ==
    {BodyWithText(Str1(s)) : s \in UpstreamTexts}
    \cup {BodyWithText(NotStr),
          NoBody,
          [json |-> TRUE, dict |-> FALSE, candidates |-> <<>>],
          BodyOf(<<>>),
          BodyOf(<< <<>> >>),
          BodyOf(<< << CandidateOf(<<>>) >> >>),
          BodyOf(<< << CandidateOf(<< ContentOf(<< <<>> >>) >>) >> >>),
          BodyOf(<< << CandidateOf(<< ContentOf(<< << PartOf(<<>>) >> >>) >>) >> >>)}

\* What requests.post does: it returns a response or raises.
Upstream ==
    {[status |-> 200, exc |-> "none", body |-> b] : b \in UpstreamBodies}
    \cup {[status |-> s, exc |-> "none", body |-> NoBody] :
            s \in {429, 500, 503, 400, 403, 404}}
    \cup {[status |-> 0, exc |-> x, body |-> NoBody] :
            x \in {"Timeout", "ConnectionError"}}

NoResponse == [status |-> 0, exc |-> "none", body |-> NoBody]

\* The request bodies of POST /get_suggestions.
SgQueries ==
    {<<>>, <<NotStr>>}
    \cup {<<Str1(s)>> : s \in {<<>>, <<"a", "b">>, <<" ", "a", "b", " ">>,
                               <<"a", "b", "c">>, <<" ", "a", "b", "c">>,
                               <<"a", " ", "b">>}}
SgRequests ==
    {[json |-> TRUE, dict |-> TRUE, query |-> q] : q \in SgQueries}
    \cup {[json |-> TRUE, dict |-> FALSE, query |-> <<>>],
          [json |-> FALSE, dict |-> FALSE, query |-> <<>>]}

\* result.get('candidates', [{}])[0].get('content', {}).get('parts', [{}])[0]
\*       .get('text', '{}'), after result = response.json()
TextOf(body) ==
    IF ~body.json THEN [exc |-> "JSONDecodeError", text |-> NotStr]
    ELSE IF ~body.dict THEN [exc |-> "AttributeError", text |-> NotStr]
    ELSE LET candidates == IF body.candidates = <<>> THEN <<CandidateOf(<<>>)>>
                           ELSE body.candidates[1]
         IN  IF candidates = <<>> THEN [exc |-> "IndexError", text |-> NotStr]
             ELSE LET content == IF candidates[1].content = <<>> THEN ContentOf(<<>>)
                                 ELSE candidates[1].content[1]
                      parts   == IF content.parts = <<>> THEN <<PartOf(<<>>)>>
                                 ELSE content.parts[1]
                  IN  IF parts = <<>> THEN [exc |-> "IndexError", text |-> NotStr]
                      ELSE [exc  |-> "none",
                            text |-> IF parts[1].text = <<>> THEN Str1(<<"{", "}">>)
                                     ELSE parts[1].text[1]]

\* A mutant of Caught: only the errors of requests are caught.
CaughtRequestErrorsOnly(exc) == exc \in {"Timeout", "ConnectionError"}

\* except Exception: every exception raised in the try block is caught.
Caught(exc) == TRUE

\* A mutant of Retryable: the attempts left are not looked at.
RetryableAlways(status, i) == status \in {429, 500, 503}

\* A mutant of Retryable: every status but 200 is retried.
RetryableAnyStatus(status, i) == i < max_retries - 1

\* response.status_code in [429, 500, 503] and i < max_retries - 1
Retryable(status, i) == status \in {429, 500, 503} /\ i < max_retries - 1

\* A mutant of NextDelay: the delay is not doubled.
SameDelay(delay) == delay

\* delay *= 2
NextDelay(delay) == delay * 2

\* A mutant of Jsonify: the empty list is sent.
JsonifyEmpty(v) == JsonArray(<<>>)

\* return jsonify(v)
Jsonify(v) == v

Return(v) == [act |-> "return", result |-> Jsonify(v)]
Sleep == [act |-> "sleep", result |-> [t |-> "none", items |-> <<>>]]
Raise(exc) ==
    IF Caught(exc) THEN Return(JsonArray(<<>>))
    ELSE [act |-> "raise", result |-> [t |-> "error", items |-> <<>>]]

\* A mutant of OnDecodeError: a bad model answer is retried like a 503.
OnDecodeErrorRetry(i) == IF i < max_retries - 1 THEN Sleep ELSE Return(JsonArray(<<>>))

\* except json.JSONDecodeError: return jsonify([])
OnDecodeError(i) == Return(JsonArray(<<>>))

\* The body of the loop after requests.post, at loop index i.
Outcome(resp, i) ==
    IF resp.exc # "none" THEN Raise(resp.exc)
    ELSE IF resp.status = 200
    THEN LET x == TextOf(resp.body)
         IN  IF x.exc # "none" THEN Raise(x.exc)
             ELSE IF ~x.text.str THEN Raise("TypeError")
             ELSE IF JsonLoads(x.text.val) = JSONDecodeError THEN OnDecodeError(i)
             ELSE Return(JsonLoads(x.text.val))
    ELSE IF Retryable(resp.status, i) THEN Sleep
    ELSE Return(JsonArray(<<>>))

\* The handler up to the try block: the body is read and the query checked.
sg_start ==
    /\ sg_pc = "idle"
    /\ \E rq \in SgRequests :
        /\ sg_request' = rq
        /\ IF ~rq.json \/ ~rq.dict \/ (rq.query # <<>> /\ ~rq.query[1].str)
           THEN /\ sg_pc' = "error"
                /\ sg_result' = [t |-> "error", items |-> <<>>]
           ELSE LET query == Strip(IF rq.query = <<>> THEN <<>> ELSE rq.query[1].val)
                IN  IF Len(query) < 3
                    THEN /\ sg_pc' = "done"
                         /\ sg_result' = Jsonify(JsonArray(<<>>))
                    ELSE /\ sg_pc' = "posting"
                         /\ UNCHANGED sg_result
    /\ sg_i' = 0
    /\ sg_delay' = 1
    /\ UNCHANGED sg_events
    /\ UNCHANGED store_vars
    /\ UNCHANGED cc_vars

\* requests.post(...) is sent.
sg_post ==
    /\ sg_pc = "posting"
    /\ sg_events' = Append(sg_events, [e |-> "post", resp |-> NoResponse, secs |-> 0])
    /\ sg_pc' = "awaiting"
    /\ UNCHANGED <<sg_request, sg_i, sg_delay, sg_result>>
    /\ UNCHANGED store_vars
    /\ UNCHANGED cc_vars

\* requests.post returns or raises, and the loop body handles it.
sg_respond ==
    /\ sg_pc = "awaiting"
    /\ \E resp \in Upstream :
        LET out == Outcome(resp, sg_i)
        IN  /\ sg_events' = Append(sg_events, [e |-> "resp", resp |-> resp, secs |-> 0])
            /\ sg_pc' = CASE out.act = "sleep" -> "sleeping"
                           [] out.act = "raise" -> "error"
                           [] OTHER             -> "done"
            /\ sg_result' = IF out.act = "sleep" THEN sg_result ELSE out.result
    /\ UNCHANGED <<sg_request, sg_i, sg_delay>>
    /\ UNCHANGED store_vars
    /\ UNCHANGED cc_vars

\* time.sleep(delay) ends, delay is doubled and the loop goes on.
sg_wake ==
    /\ sg_pc = "sleeping"
    /\ sg_events' = Append(sg_events, [e |-> "sleep", resp |-> NoResponse,
                                       secs |-> sg_delay])
    /\ sg_delay' = NextDelay(sg_delay)
    /\ sg_i' = sg_i + 1
    /\ IF sg_i + 1 < Attempts
       THEN /\ sg_pc' = "posting"
            /\ UNCHANGED sg_result
       ELSE /\ sg_pc' = "done"
            /\ sg_result' = Jsonify(JsonArray(<<>>))
    /\ UNCHANGED sg_request
    /\ UNCHANGED store_vars
    /\ UNCHANGED cc_vars

SgNext ==
    \/ sg_start
    \/ sg_post
    \/ sg_respond
    \/ sg_wake

SgSpec == Init /\ [][SgNext]_vars

-----------------------------------------------------------------------------
(* Vocabulary of the properties, stated on the raw request and independent *)
(* of the operators the handlers use.                                      *)

\* The text a form field carries; an absent text field counts as empty.
Raw(f) == IF f.present THEN f.val ELSE <<>>

\* Empty, or whitespace only.
BlankText(s) == \A i \in 1..Len(s) : s[i] \in WhiteSpace

\* t is s without its leading and trailing whitespace.
IsTrimOf(t, s) ==
    /\ t # <<>> => (t[1] \notin WhiteSpace /\ t[Len(t)] \notin WhiteSpace)
    /\ \E i \in 0..Len(s) :
        /\ i + Len(t) <= Len(s)
        /\ \A k \in 1..Len(t) : s[i + k] = t[k]
        /\ \A k \in 1..Len(s) : (k <= i \/ k > i + Len(t)) => s[k] \in WhiteSpace

TaskIdsOf(list) == {list[i].task_id : i \in 1..Len(list)}
ExpenseIdsOf(list) == {list[i].expense_id : i \in 1..Len(list)}

-----------------------------------------------------------------------------
\* C1: no store issues an id it has issued before, deleted records included,
\* so the ids in the task list are pairwise distinct and so are the ids in
\* the expense list.
C1_IdsNeverReused ==
    /\ [](/\ \A i, j \in 1..Len(tasks) :
               tasks[i].task_id = tasks[j].task_id => i = j
          /\ \A i, j \in 1..Len(expenses) :
               expenses[i].expense_id = expenses[j].expense_id => i = j)
    /\ [][/\ Len(tasks') > Len(tasks) => tasks'[1].task_id \notin issued.tasks
          /\ Len(expenses') > Len(expenses) =>
                expenses'[1].expense_id \notin issued.expenses]_vars

\* A task was added, deleted, and another task added: the new one has id 2.
C1_Witness ==
    /\ last.op = "add_task"
    /\ issued.tasks = {<<"1">>, <<"2">>}
    /\ Len(tasks) = 1
    /\ tasks[1].task_id = <<"2">>

\* C2: add_task with a text that is non-empty after trimming, and any
\* location, makes the task list one longer and puts the new task, with the
\* trimmed text and location, first.
C2_AddTaskPrepends ==
    [][(last'.op = "add_task" /\ ~BlankText(Raw(last'.text))) =>
          /\ Len(tasks') = Len(tasks) + 1
          /\ IsTrimOf(tasks'[1].text, Raw(last'.text))
          /\ IsTrimOf(tasks'[1].location, Raw(last'.location))
          /\ tasks'[1].task_id \notin TaskIdsOf(tasks)]_vars

\* A task with surrounding whitespace was added in front of an older task.
C2_Witness ==
    /\ last.op = "add_task"
    /\ last.text = Field(<<" ", "a", " ", "b", " ">>)
    /\ last.location = Field(<<" ", "x">>)
    /\ Len(tasks) = 2
    /\ tasks[1].text = <<"a", " ", "b">>
    /\ tasks[1].location = <<"x">>

\* C3: add_task with an empty or whitespace-only text changes neither the
\* task list nor the task id counter, whatever the location.
C3_AddTaskBlankNoOp ==
    [][(last'.op = "add_task" /\ BlankText(Raw(last'.text))) =>
          UNCHANGED <<tasks, task_id_counter>>]_vars

\* A whitespace-only text with a location was sent when a task was stored.
C3_Witness ==
    /\ last.op = "add_task"
    /\ last.text = Field(<<" ">>)
    /\ last.location.present
    /\ Len(tasks) = 1
    /\ task_id_counter = 2

\* C4: add_expense with a description that is non-empty after trimming and
\* an amount that is a number >= 0 (0 included) makes the expense list one
\* longer and puts the new expense first.
C4_AddExpensePrepends ==
    [][(/\ last'.op = "add_expense"
        /\ ~BlankText(Raw(last'.description))
        /\ last'.amount \in AmountsGeZero) =>
          /\ Len(expenses') = Len(expenses) + 1
          /\ IsTrimOf(expenses'[1].description, Raw(last'.description))
          /\ expenses'[1].expense_id \notin ExpenseIdsOf(expenses)]_vars

\* A free item (amount 0) was added in front of an older expense.
C4_Witness ==
    /\ last.op = "add_expense"
    /\ last.amount = Field(<<"0">>)
    /\ Len(expenses) = 2
    /\ expenses[1].expense_id = <<"2">>
    /\ expenses[1].amount = <<"0", ".", "0", "0">>

\* s is a non-negative decimal with exactly two digits after the point.
TwoDecimalsGeZero(s) ==
    LET b == IF s # <<>> /\ s[1] = "-" THEN Tail(s) ELSE s
    IN  /\ Len(b) >= 4
        /\ b[Len(b) - 2] = "."
        /\ \A i \in 1..Len(b) : i # Len(b) - 2 => IsDigit(b[i])
        /\ b # s => \A i \in 1..Len(b) : b[i] \in {"0", "."}

\* C5: the amount of every stored expense is a non-negative decimal written
\* with exactly two digits after the decimal point.
C5_AmountsTwoDecimals ==
    \A i \in 1..Len(expenses) : TwoDecimalsGeZero(expenses[i].amount)

\* C6: add_expense changes neither the expense list nor the expense id
\* counter when the amount is not a number, when it is negative, or when the
\* description is empty after trimming.
C6_AddExpenseRejectNoOp ==
    [][(/\ last'.op = "add_expense"
        /\ \/ last'.amount \in AmountsNotNumber
           \/ last'.amount \in AmountsNegative
           \/ BlankText(Raw(last'.description))) =>
          UNCHANGED <<expenses, expense_id_counter>>]_vars

\* A negative amount with a good description was sent when an expense was
\* stored.
C6_Witness ==
    /\ last.op = "add_expense"
    /\ last.amount = Field(<<"-", "1">>)
    /\ ~BlankText(Raw(last.description))
    /\ Len(expenses) = 1
    /\ expense_id_counter = 2

\* C7: an expense added with a valid description and amount and a category
\* field that is empty or whitespace only is stored with category "Other".
C7_BlankCategoryIsOther ==
    (/\ last.op = "add_expense"
     /\ ~BlankText(Raw(last.description))
     /\ last.amount \in AmountsGeZero
     /\ last.category.present
     /\ BlankText(last.category.val)) =>
        (expenses # <<>> /\ expenses[1].category = <<"O", "t", "h", "e", "r">>)

\* The positions of the records a delete of `id` keeps.
KeptTasks(id) == {i \in 1..Len(tasks) : tasks[i].task_id # id}
KeptExpenses(id) == {i \in 1..Len(expenses) : expenses[i].expense_id # id}

\* C8: delete_task(id) and delete_expense(id) leave exactly the records whose
\* id differs from id, in their previous order, and leave the id counter as it
\* was; with no record of that id the store is unchanged, with one the count
\* drops by exactly 1.
C8_DeleteRemovesExactly ==
    [][/\ last'.op = "delete_task" =>
            LET keep == KeptTasks(last'.id)
            IN  /\ Len(tasks') = Cardinality(keep)
                /\ \A i \in keep :
                      tasks'[Cardinality({j \in keep : j <= i})] = tasks[i]
                /\ task_id_counter' = task_id_counter
                /\ Cardinality(keep) = Len(tasks) => tasks' = tasks
                /\ Cardinality(keep) # Len(tasks) => Len(tasks') = Len(tasks) - 1
       /\ last'.op = "delete_expense" =>
            LET keep == KeptExpenses(last'.id)
            IN  /\ Len(expenses') = Cardinality(keep)
                /\ \A i \in keep :
                      expenses'[Cardinality({j \in keep : j <= i})] = expenses[i]
                /\ expense_id_counter' = expense_id_counter
                /\ Cardinality(keep) = Len(expenses) => expenses' = expenses
                /\ Cardinality(keep) # Len(expenses) =>
                      Len(expenses') = Len(expenses) - 1]_vars

\* The older of two tasks was deleted; the newer one is what is left.
C8_Witness ==
    /\ last.op = "delete_task"
    /\ last.id = <<"1">>
    /\ task_id_counter = 3
    /\ Len(tasks) = 1
    /\ tasks[1].task_id = <<"2">>

\* C9: set_budget with an input that is not a number, or is negative, leaves
\* the budget at its previous value.
C9_SetBudgetRejectKeeps ==
    [][(/\ last'.op = "set_budget"
        /\ last'.budget \in BudgetsNotNumber \cup BudgetsNegative) =>
          total_trip_budget' = total_trip_budget]_vars

\* set_budget("2500") then set_budget("abc"): the budget is still 2500.00.
C9_Witness ==
    /\ last.op = "set_budget"
    /\ last.budget = Field(<<"a", "b", "c">>)
    /\ last.before = Normalize(FALSE, 2500, 0)
    /\ total_trip_budget = Normalize(FALSE, 2500, 0)
    /\ Format2(total_trip_budget) = <<"2", "5", "0", "0", ".", "0", "0">>

\* The decimal a budget input of BudgetsGeZero denotes, as <<mant, scale>>
\* for mant / 10^scale; <<>> for infinity.
DecimalOfBudget(f) ==
    CASE f = Field(<<" ", "2", "5", "0", "0">>)      -> <<2500, 0>>
      [] f = Field(<<"3", ".", "5">>)                -> <<35, 1>>
      [] f = Field(<<"2", ".", "6", "7", "5">>)      -> <<2675, 3>>
      [] f = Field(<<"9", ".", "9", "9", "6">>)      -> <<9996, 3>>
      [] f = Field(<<"-", "0">>)                     -> <<0, 0>>
      [] f = Field(<<"i", "n", "f">>)                -> <<>>

\* b is d rounded to two decimals: a multiple of 0.01 at most half of 0.01
\* away from d (infinity stays infinity).
IsRounded2(b, d) ==
    IF d = <<>> THEN b.kind = "inf" /\ ~b.neg
    ELSE LET s == IF d[2] > 2 THEN d[2] ELSE 2
             x == b.mant * Pow10(s - b.scale)
             y == d[1] * Pow10(s - d[2])
             diff == IF x >= y THEN x - y ELSE y - x
         IN  /\ b.kind = "fin"
             /\ b.scale <= 2
             /\ 2 * diff <= Pow10(s - 2)

\* C10: set_budget with an input that is a number >= 0 overwrites the budget
\* with that value rounded to 2 decimals, whatever the previous budget was,
\* and repeating the same set_budget changes nothing.
C10_SetBudgetOverwrites ==
    [][(last'.op = "set_budget" /\ last'.budget \in BudgetsGeZero) =>
          /\ IsRounded2(total_trip_budget', DecimalOfBudget(last'.budget))
          /\ (last.op = "set_budget" /\ last.budget = last'.budget) =>
                total_trip_budget' = total_trip_budget]_vars

\* set_budget("2500") then set_budget("9.996"): the budget is 10.00.
C10_Witness ==
    /\ last.op = "set_budget"
    /\ last.budget = Field(<<"9", ".", "9", "9", "6">>)
    /\ last.before = Normalize(FALSE, 2500, 0)
    /\ total_trip_budget = Normalize(FALSE, 10, 0)

\* C11: the budget is 0 before any set_budget, only set_budget changes it, and
\* in every reachable state it is a non-negative value.
C11_BudgetNonNegative ==
    /\ total_trip_budget = [kind |-> "fin", neg |-> FALSE, mant |-> 0, scale |-> 0]
    /\ [](/\ total_trip_budget.kind \in {"fin", "inf"}
          /\ total_trip_budget.neg => (total_trip_budget.kind = "fin"
                                        /\ total_trip_budget.mant = 0))
    /\ [][total_trip_budget' # total_trip_budget => last'.op = "set_budget"]_vars

\* A negative budget was sent after the budget had been set to 3.5.
C11_Witness ==
    /\ last.op = "set_budget"
    /\ last.budget = Field(<<"-", "1">>)
    /\ last.before = Normalize(FALSE, 35, 1)
    /\ total_trip_budget = Normalize(FALSE, 35, 1)

\* The number a rendered text shows: [k |-> "fin", c |-> hundredths],
\* [k |-> "inf", c |-> 1 or -1], or [k |-> "nan", c |-> 0].
ShownNumber(s) ==
    LET neg  == s # <<>> /\ s[1] = "-"
        b    == IF neg THEN Tail(s) ELSE s
        sign == IF neg THEN -1 ELSE 1
    IN  IF b = <<"i", "n", "f">> THEN [k |-> "inf", c |-> sign]
        ELSE IF b = <<"n", "a", "n">> \/ Len(b) < 4 THEN [k |-> "nan", c |-> 0]
        ELSE [k |-> "fin",
              c |-> sign * DigitsVal(SubSeq(b, 1, Len(b) - 3)
                                     \o SubSeq(b, Len(b) - 1, Len(b)))]

RECURSIVE TotalShown(_)
\* The sum of the numbers the first n stored amounts show.
TotalShown(n) ==
    IF n = 0 THEN [k |-> "fin", c |-> 0]
    ELSE LET r == TotalShown(n - 1)
             x == ShownNumber(expenses[n].amount)
         IN  IF r.k = "inf" \/ x.k = "inf" THEN [k |-> "inf", c |-> 1]
             ELSE [k |-> "fin", c |-> r.c + x.c]

\* The budget less the sum of the stored amounts; with both infinite there
\* is no such number.
RemainingExact ==
    LET spent  == TotalShown(Len(expenses))
        budget == IF total_trip_budget.kind = "inf" THEN [k |-> "inf", c |-> 1]
                  ELSE [k |-> "fin",
                        c |-> total_trip_budget.mant
                              * Pow10(2 - total_trip_budget.scale)]
    IN  IF budget.k = "inf" /\ spent.k = "inf" THEN [k |-> "none", c |-> 0]
        ELSE IF budget.k = "inf" THEN budget
        ELSE IF spent.k = "inf" THEN [k |-> "inf", c |-> -1]
        ELSE [k |-> "fin", c |-> budget.c - spent.c]

\* C12: every render of the dashboard shows a total spent equal to the sum of
\* the amounts stored at that moment and a remaining budget equal to the
\* budget less that sum, negative when the sum is the larger.
C12_RenderTotals ==
    last.op = "index" =>
        /\ last.status = 200
        /\ ShownNumber(last.total) = TotalShown(Len(expenses))
        /\ ShownNumber(last.remaining) = RemainingExact

-----------------------------------------------------------------------------
(* Vocabulary of the gateway properties, read off the history sg_events.   *)

Transient == {429, 500, 503}

EmptyList == [t |-> "array", items |-> <<>>]

\* The number of events of kind e among the first k.
CountUpTo(e, k) == Cardinality({j \in 1..k : sg_events[j].e = e})

Posts == CountUpTo("post", Len(sg_events))
Sleeps == CountUpTo("sleep", Len(sg_events))

\* Event k is a response with this property.
IsTransientAt(k) ==
    /\ sg_events[k].e = "resp"
    /\ sg_events[k].resp.exc = "none"
    /\ sg_events[k].resp.status \in Transient

\* The call ended at event k by answering the empty list.
EndsEmptyAt(k) ==
    /\ k = Len(sg_events)
    /\ sg_pc = "done"
    /\ sg_result = EmptyList

\* The model answers that are valid JSON, with the value each one denotes.
JsonTexts ==
    {<<"[", "1", ",", "2", "0", "]">>, <<"[", "]">>, <<"{", "}">>, <<"7">>}
NotJsonTexts == {<<"[", "1", ",">>, <<"a", "b", "c">>, <<>>}
DenotedJson(s) ==
    CASE s = <<"[", "1", ",", "2", "0", "]">> -> [t |-> "array", items |-> <<1, 20>>]
      [] s = <<"[", "]">>                     -> [t |-> "array", items |-> <<>>]
      [] s = <<"{", "}">>                     -> [t |-> "object", items |-> <<>>]
      [] s = <<"7">>                          -> [t |-> "number", items |-> <<7>>]

\* C13: a call makes at most 3 HTTP requests to the backing API.
C13_AtMostThreePosts == Posts <= 3

\* Three requests were made and the call has ended.
C13_Witness == Posts = 3 /\ sg_pc = "done"

\* C14: a wait happens exactly after a 429, 500 or 503 when attempts remain;
\* the first wait is 1 second, each later one double the one before; a new
\* request follows every wait, and nothing is waited after the third attempt.
C14_BackoffWaits ==
    \A k \in 1..Len(sg_events) :
        /\ sg_events[k].e = "sleep" =>
              /\ k > 1 /\ IsTransientAt(k - 1)
              /\ CountUpTo("post", k) < 3
              /\ IF CountUpTo("sleep", k) = 1 THEN sg_events[k].secs = 1
                 ELSE \E j \in 1..(k - 1) :
                        /\ sg_events[j].e = "sleep"
                        /\ CountUpTo("sleep", j) = CountUpTo("sleep", k) - 1
                        /\ sg_events[k].secs = 2 * sg_events[j].secs
              /\ IF k < Len(sg_events) THEN sg_events[k + 1].e = "post"
                 ELSE sg_pc = "posting"
        /\ (IsTransientAt(k) /\ CountUpTo("post", k) < 3) =>
              IF k < Len(sg_events) THEN sg_events[k + 1].e = "sleep"
              ELSE sg_pc = "sleeping"

\* 503, wait 1 s, 429, wait 2 s, third request sent.
C14_Witness ==
    /\ Len(sg_events) = 7
    /\ sg_events[2].resp.status = 503
    /\ sg_events[3].e = "sleep" /\ sg_events[3].secs = 1
    /\ sg_events[5].resp.status = 429
    /\ sg_events[6].e = "sleep" /\ sg_events[6].secs = 2
    /\ sg_events[7].e = "post"

\* C15: a 200 whose text payload is valid JSON, at the 1st, 2nd or 3rd
\* attempt, ends the call at that attempt with the parsed payload as it is.
C15_ValidJsonReturned ==
    \A k \in 1..Len(sg_events) :
        \A s \in JsonTexts :
            (/\ sg_events[k].e = "resp"
             /\ sg_events[k].resp.status = 200
             /\ sg_events[k].resp.body = BodyWithText(Str1(s))) =>
                /\ k = Len(sg_events)
                /\ sg_pc = "done"
                /\ sg_result = DenotedJson(s)

\* [503, 503, 200 with "[1,20]"]: the third attempt succeeds after waits of
\* 1 s and 2 s.
C15_Witness ==
    /\ Posts = 3
    /\ Sleeps = 2
    /\ IsTransientAt(2) /\ IsTransientAt(5)
    /\ sg_events[Len(sg_events)].resp.body
         = BodyWithText(Str1(<<"[", "1", ",", "2", "0", "]">>))
    /\ sg_result = [t |-> "array", items |-> <<1, 20>>]

\* C16: when all three attempts return 429, 500 or 503 the call answers the
\* empty list after exactly 3 requests and 2 waits, and retries no more.
C16_ExhaustedReturnsEmpty ==
    Cardinality({k \in 1..Len(sg_events) : IsTransientAt(k)}) = 3 =>
        /\ EndsEmptyAt(Len(sg_events))
        /\ IsTransientAt(Len(sg_events))
        /\ Posts = 3
        /\ Sleeps = 2

\* [503, 503, 503].
C16_Witness ==
    /\ Len(sg_events) = 8
    /\ sg_events[2].resp.status = 503
    /\ sg_events[5].resp.status = 503
    /\ sg_events[8].resp.status = 503
    /\ sg_pc = "done"

\* C17: a status that is neither 200 nor 429, 500, 503 ends the call at that
\* attempt with the empty list, with no wait and no further request.
C17_OtherStatusReturnsEmpty ==
    \A k \in 1..Len(sg_events) :
        (/\ sg_events[k].e = "resp"
         /\ sg_events[k].resp.exc = "none"
         /\ sg_events[k].resp.status \notin Transient \cup {200}) =>
            EndsEmptyAt(k)

\* A 404 at the first attempt, when two attempts remain.
C17_Witness ==
    /\ Len(sg_events) = 2
    /\ sg_events[2].resp.status = 404
    /\ sg_pc = "done"

\* C18: a 200 whose text payload is not valid JSON ends the call with the
\* empty list and no further request, even when attempts remain.
C18_BadJsonReturnsEmpty ==
    \A k \in 1..Len(sg_events) :
        \A s \in NotJsonTexts :
            (/\ sg_events[k].e = "resp"
             /\ sg_events[k].resp.status = 200
             /\ sg_events[k].resp.body = BodyWithText(Str1(s))) =>
                EndsEmptyAt(k)

\* A truncated array at the first attempt.
C18_Witness ==
    /\ Len(sg_events) = 2
    /\ sg_events[2].resp.status = 200
    /\ sg_events[2].resp.body = BodyWithText(Str1(<<"[", "1", ",">>))
    /\ sg_pc = "done"

\* The call has read a body whose query, a string or missing, has fewer than
\* 3 characters once trimmed.
ShortQuery ==
    /\ sg_pc # "idle"
    /\ sg_request.json /\ sg_request.dict
    /\ sg_request.query # <<>> => sg_request.query[1].str
    /\ LET q == IF sg_request.query = <<>> THEN <<>> ELSE sg_request.query[1].val
       IN  \E i \in 0..Len(q), n \in 0..2 :
               i + n <= Len(q) /\ IsTrimOf(SubSeq(q, i + 1, i + n), q)

\* C19: a call whose query has fewer than 3 characters after trimming answers
\* the empty list without any HTTP request.
C19_ShortQueryNoRequest ==
    ShortQuery => (sg_events = <<>> /\ sg_pc = "done" /\ sg_result = EmptyList)

\* The query " ab " was answered.
C19_Witness ==
    /\ sg_pc = "done"
    /\ sg_request.query = <<Str1(<<" ", "a", "b", " ">>)>>

\* The 200 bodies of malformed structure: not JSON, a top-level list, an
\* empty candidates list, an empty parts list, a text that is no string.
MalformedBodies ==
    {NoBody,
     [json |-> TRUE, dict |-> FALSE, candidates |-> <<>>],
     BodyOf(<< <<>> >>),
     BodyOf(<< << CandidateOf(<< ContentOf(<< <<>> >>) >>) >> >>),
     BodyWithText(NotStr)}

\* C20: when a request raises (timeout, connection error) or a 200 has a
\* malformed structure, at any attempt, the call answers the empty list,
\* makes no further request, and the exception does not reach the caller.
C20_ExceptionsReturnEmpty ==
    \A k \in 1..Len(sg_events) :
        (/\ sg_events[k].e = "resp"
         /\ \/ sg_events[k].resp.exc # "none"
            \/ /\ sg_events[k].resp.status = 200
               /\ sg_events[k].resp.body \in MalformedBodies) =>
            EndsEmptyAt(k)

\* An empty candidates list at the second attempt.
C20_Witness ==
    /\ Len(sg_events) = 5
    /\ sg_events[5].resp.status = 200
    /\ sg_events[5].resp.body = BodyOf(<< <<>> >>)
    /\ sg_pc = "done"

\* C21: every completed call to POST /get_suggestions responds with a JSON
\* array, the empty one or the one parsed from the upstream payload, also
\* when the first part has no text field or the text is JSON but no array.
C21_RespondsWithArray ==
    sg_pc = "done" => sg_result.t = "array"

\* C22: whatever the request body (missing query, query that is no string,
\* body that is no JSON object) and whatever the upstream does, the handler
\* ends with a normal suggestions response, never with an unhandled error.
C22_NeverUnhandledError ==
    sg_pc # "error"

\* Every upstream request is answered or raises, and every wait ends.
SgFairSpec ==
    /\ SgSpec
    /\ WF_vars(sg_post)
    /\ WF_vars(sg_respond)
    /\ WF_vars(sg_wake)

\* C23: with every upstream request answered and every wait ended, a call
\* once begun eventually terminates in Success (the parsed payload) or
\* Failed (the empty list).
C23_CallTerminates ==
    (sg_pc # "idle") ~> (sg_pc = "done")

\* C24: every request to set_budget, add_task, delete_task, add_expense and
\* delete_expense, whatever its input, ends with the redirect to the
\* dashboard; and in every reachable state every stored amount parses back
\* as a number, so that the dashboard render succeeds.
C24_HandlersNeverFail ==
    /\ last.op \in {"set_budget", "add_task", "delete_task", "add_expense",
                    "delete_expense"} => last.status = 302
    /\ \A i \in 1..Len(expenses) :
          ParseFloat(expenses[i].amount).kind \in {"fin", "inf"}
    /\ last.op = "index" => last.status = 200

\* An amount that is no number was sent when an expense of amount 'inf' was
\* stored: the request was redirected and the list kept.
C24_Witness ==
    /\ last.op = "add_expense"
    /\ last.amount = Field(<<"1", " ", "2">>)
    /\ last.status = 302
    /\ Len(expenses) = 1
    /\ expenses[1].amount = <<"i", "n", "f">>

\* The number an id is the decimal numeral of.
IdNumber(s) == CHOOSE k \in 0..(MaxRequests + 1) : StrNat(k) = s

\* C27: with requests served one at a time, the task list and the expense
\* list are each ordered by strictly decreasing numeric id, most recently
\* added first, after any sequence of adds and deletes.
C27_ListsDecreasingIds ==
    /\ \A i, j \in 1..Len(tasks) :
          i < j => IdNumber(tasks[i].task_id) > IdNumber(tasks[j].task_id)
    /\ \A i, j \in 1..Len(expenses) :
          i < j => IdNumber(expenses[i].expense_id) > IdNumber(expenses[j].expense_id)

\* Two expenses were added and the task list holds one task.
C27_Witness ==
    /\ Len(expenses) = 2
    /\ expenses[1].expense_id = <<"2">>
    /\ expenses[2].expense_id = <<"1">>
    /\ Len(tasks) = 1

\* The request just served was an add that the store accepts.
GoodAddTask == last'.op = "add_task" /\ ~BlankText(Raw(last'.text))
GoodAddExpense ==
    /\ last'.op = "add_expense"
    /\ ~BlankText(Raw(last'.description))
    /\ last'.amount \in AmountsGeZero

\* C28: with requests served one at a time, only successful adds consume
\* ids: each id counter is 1 plus the number of successful adds to its
\* store, and the k-th successful add gets id k.
C28_CountersCountAdds ==
    /\ [](/\ task_id_counter = 1 + Cardinality(issued.tasks)
          /\ expense_id_counter = 1 + Cardinality(issued.expenses))
    /\ [][/\ IF GoodAddTask
             THEN /\ IdNumber(tasks'[1].task_id) = Cardinality(issued.tasks) + 1
                  /\ Cardinality(issued'.tasks) = Cardinality(issued.tasks) + 1
                  /\ task_id_counter' = task_id_counter + 1
             ELSE UNCHANGED <<task_id_counter, issued.tasks>>
          /\ IF GoodAddExpense
             THEN /\ IdNumber(expenses'[1].expense_id) = Cardinality(issued.expenses) + 1
                  /\ Cardinality(issued'.expenses) = Cardinality(issued.expenses) + 1
                  /\ expense_id_counter' = expense_id_counter + 1
             ELSE UNCHANGED <<expense_id_counter, issued.expenses>>]_vars

\* Of three requests two were successful add_tasks, the last one among
\* them: it got id 2 and the counter stands at 3.
C28_Witness ==
    /\ nreq = 3
    /\ last.op = "add_task"
    /\ ~BlankText(Raw(last.text))
    /\ Len(tasks) = 2
    /\ tasks[1].task_id = <<"2">>
    /\ task_id_counter = 3

-----------------------------------------------------------------------------
(* The whole application, one request at a time: some store requests and   *)
(* dashboard renders, then a call of get_suggestions.                      *)

\* Number of store requests served before the call of get_suggestions.
FrameRequests == 3

\* The inputs of those store requests, as the request record holds them.
FrameInputs(request) ==
    CASE request.op = "add_task" ->
            /\ request.text \in {Field(<<" ">>), Field(<<" ", "a", " ", "b", " ">>)}
            /\ request.location = Absent
      [] request.op = "delete_task" -> request.id \in {<<"1">>, <<"x">>}
      [] request.op = "add_expense" ->
            /\ request.description = Field(<<" ", "t">>)
            /\ request.amount \in {Field(<<"-", "1">>), Field(<<" ", "3", ".", "5", " ">>)}
            /\ request.category = Absent
      [] request.op = "delete_expense" -> request.id \in {<<"1">>, <<"x">>}
      [] request.op = "set_budget" ->
            request.budget \in {Absent, Field(<<"-", "1">>), Field(<<"3", ".", "5">>)}
      [] OTHER -> TRUE

AppNext ==
    \/ (sg_pc = "idle" /\ nreq < FrameRequests /\ Next /\ FrameInputs(last'))
    \/ SgNext

AppSpec == Init /\ [][AppNext]_vars

\* C29: each endpoint changes only its own part of the state: the task
\* endpoints leave the expense list, the expense id counter and the budget
\* alone, the expense endpoints leave the task list, the task id counter
\* and the budget alone, set_budget leaves both lists and both counters
\* alone, and GET / and get_suggestions, its retries and waits included,
\* leave all of them alone.
C29_EndpointsOwnState ==
    [][/\ nreq' # nreq =>
            /\ last'.op \in {"add_task", "delete_task"} =>
                  UNCHANGED <<expenses, expense_id_counter, total_trip_budget>>
            /\ last'.op \in {"add_expense", "delete_expense"} =>
                  UNCHANGED <<tasks, task_id_counter, total_trip_budget>>
            /\ last'.op = "set_budget" =>
                  UNCHANGED <<tasks, task_id_counter, expenses, expense_id_counter>>
            /\ last'.op = "index" =>
                  UNCHANGED <<tasks, task_id_counter, expenses, expense_id_counter,
                              total_trip_budget>>
       /\ sg_vars' # sg_vars =>
            UNCHANGED <<tasks, task_id_counter, expenses, expense_id_counter,
                        total_trip_budget>>]_vars

\* With a task and an expense stored and the budget set, a call of
\* get_suggestions is in its second wait.
C29_Witness ==
    /\ Len(tasks) = 1
    /\ Len(expenses) = 1
    /\ total_trip_budget # Normalize(FALSE, 0, 0)
    /\ sg_pc = "sleeping"
    /\ Sleeps = 1

-----------------------------------------------------------------------------
(* Requests served by two threads at once.  The server runs each request   *)
(* in a thread of its own and the handlers take no lock, so the threads    *)
(* interleave between any two accesses to the globals: the read of the id  *)
(* counter, the load of the list, the insert, the load and the store of    *)
(* `counter += 1`, each step of a list comprehension, and the rebinding of *)
(* the list.                                                               *)

\* Number of requests the two threads serve in one explored run.
CcRequests == 4

\* The inputs of the concurrent requests.
CcTaskTexts == {Field(<<" ">>), Field(<<" ", "a", " ", "b", " ">>)}
CcAmounts == {Absent, Field(<<"-", "1">>), Field(<<"0">>)}
CcIds == {<<"1">>, <<"2">>, <<"x">>}

Stores == {"tasks", "expenses"}
Other(p) == 3 - p

\* The globals of a store.
List(s) == IF s = "tasks" THEN tasks ELSE expenses
Counter(s) == IF s = "tasks" THEN task_id_counter ELSE expense_id_counter
IdOf(s, r) == IF s = "tasks" THEN r.task_id ELSE r.expense_id

\* A mutant of Keeps: no record passes the filter.
KeepsNone(record_id, wanted) == FALSE

\* task.get('task_id') != task_id
Keeps(record_id, wanted) == record_id # wanted

\* Thread p begins a request on store s: the requests overlap when the
\* other thread is in the middle of one on the same store.
Begun(p, s) ==
    /\ nreq' = nreq + 1
    /\ cc_raced' = [cc_raced EXCEPT
                      ![s] = @ \/ (cc_pc[Other(p)] # "idle"
                                   /\ cc_loc[Other(p)].store = s)]

\* Thread p returns redirect(url_for('index')) without a change.
Rejected(p) ==
    /\ nreq' = nreq + 1
    /\ UNCHANGED <<tasks, task_id_counter, expenses, expense_id_counter,
                   issued, cc_pc, cc_loc, cc_raced, cc_deleted>>

\* add_task up to the dict display: the fields are read and the id is taken
\* from the counter.
cc_add_task(p) ==
    /\ cc_pc[p] = "idle"
    /\ nreq < CcRequests
    /\ \E f_text \in CcTaskTexts, f_loc \in TaskLocations :
        LET task_text     == Strip(FormGet(f_text, <<>>))
            location_text == Strip(FormGet(f_loc, <<>>))
        IN  IF Truthy(task_text)
            THEN /\ cc_loc' = [cc_loc EXCEPT ![p] =
                       [NoLocals EXCEPT
                          !.store = "tasks",
                          !.rec = <<[task_id  |-> Str(task_id_counter),
                                     text     |-> task_text,
                                     location |-> location_text]>>]]
                 /\ cc_pc' = [cc_pc EXCEPT ![p] = "getlist"]
                 /\ issued' = [issued EXCEPT !.tasks = @ \cup {Str(task_id_counter)}]
                 /\ Begun(p, "tasks")
                 /\ UNCHANGED <<tasks, task_id_counter, expenses,
                                expense_id_counter, cc_deleted>>
            ELSE Rejected(p)
    /\ UNCHANGED <<total_trip_budget, last>>
    /\ UNCHANGED sg_vars

\* add_expense up to the dict display.
cc_add_expense(p) ==
    /\ cc_pc[p] = "idle"
    /\ nreq < CcRequests
    /\ \E f_desc \in {Field(<<" ", "t">>)}, f_amount \in CcAmounts, f_cat \in {Absent} :
        LET description  == Strip(FormGet(f_desc, <<>>))
            amount_str   == Strip(FormGet(f_amount, <<>>))
            category     == Strip(FormGet(f_cat, <<"O", "t", "h", "e", "r">>))
            amount_float == ParseFloat(amount_str)
        IN  IF amount_float.kind = "ValueError"
            THEN Rejected(p)
            ELSE IF Truthy(description) /\ GeZero(amount_float)
            THEN /\ cc_loc' = [cc_loc EXCEPT ![p] =
                       [NoLocals EXCEPT
                          !.store = "expenses",
                          !.rec = <<[expense_id  |-> Str(expense_id_counter),
                                     description |-> description,
                                     amount      |-> Format2(amount_float),
                                     category    |-> category]>>]]
                 /\ cc_pc' = [cc_pc EXCEPT ![p] = "getlist"]
                 /\ issued' = [issued EXCEPT
                                 !.expenses = @ \cup {Str(expense_id_counter)}]
                 /\ Begun(p, "expenses")
                 /\ UNCHANGED <<tasks, task_id_counter, expenses,
                                expense_id_counter, cc_deleted>>
            ELSE Rejected(p)
    /\ UNCHANGED <<total_trip_budget, last>>
    /\ UNCHANGED sg_vars

\* tasks.insert / expenses.insert: the list object is loaded.
cc_add_getlist(p) ==
    /\ cc_pc[p] = "getlist"
    /\ cc_loc' = [cc_loc EXCEPT ![p].shared = TRUE]
    /\ cc_pc' = [cc_pc EXCEPT ![p] = "insert"]
    /\ UNCHANGED <<tasks, task_id_counter, expenses, expense_id_counter,
                   total_trip_budget, last, issued, nreq, cc_raced, cc_deleted>>
    /\ UNCHANGED sg_vars

\* .insert(0, new_record) on the object loaded: it is the store's list
\* unless a delete has rebound the global since.
cc_add_insert(p) ==
    /\ cc_pc[p] = "insert"
    /\ LET s == cc_loc[p].store
           new == cc_loc[p].rec[1]
       IN  IF cc_loc[p].shared
           THEN /\ IF s = "tasks"
                   THEN tasks' = InsertFront(tasks, new) /\ UNCHANGED expenses
                   ELSE expenses' = InsertFront(expenses, new) /\ UNCHANGED tasks
                /\ UNCHANGED cc_loc
           ELSE /\ cc_loc' = [cc_loc EXCEPT ![p].lst = InsertFront(@, new)]
                /\ UNCHANGED <<tasks, expenses>>
    /\ cc_pc' = [cc_pc EXCEPT ![p] = "load"]
    /\ UNCHANGED <<task_id_counter, expense_id_counter,
                   total_trip_budget, last, issued, nreq, cc_raced, cc_deleted>>
    /\ UNCHANGED sg_vars

\* counter += 1, first half: the counter is loaded.
cc_add_load(p) ==
    /\ cc_pc[p] = "load"
    /\ cc_loc' = [cc_loc EXCEPT ![p].tmp = Counter(cc_loc[p].store)]
    /\ cc_pc' = [cc_pc EXCEPT ![p] = "store"]
    /\ UNCHANGED <<tasks, task_id_counter, expenses, expense_id_counter,
                   total_trip_budget, last, issued, nreq, cc_raced, cc_deleted>>
    /\ UNCHANGED sg_vars

\* counter += 1, second half: the sum is stored; the handler returns.
cc_add_store(p) ==
    /\ cc_pc[p] = "store"
    /\ IF cc_loc[p].store = "tasks"
       THEN /\ task_id_counter' = Increment(cc_loc[p].tmp)
            /\ UNCHANGED expense_id_counter
       ELSE /\ expense_id_counter' = Increment(cc_loc[p].tmp)
            /\ UNCHANGED task_id_counter
    /\ cc_pc' = [cc_pc EXCEPT ![p] = "idle"]
    /\ cc_loc' = [cc_loc EXCEPT ![p] = NoLocals]
    /\ UNCHANGED <<tasks, expenses,
                   total_trip_budget, last, issued, nreq, cc_raced, cc_deleted>>
    /\ UNCHANGED sg_vars

\* delete_task / delete_expense up to the start of the comprehension: the
\* list object is loaded and an iterator made on it.
cc_delete(p) ==
    /\ cc_pc[p] = "idle"
    /\ nreq < CcRequests
    /\ \E s \in Stores, id \in CcIds :
        /\ cc_loc' = [cc_loc EXCEPT ![p] =
                        [NoLocals EXCEPT !.store = s, !.id = id, !.shared = TRUE]]
        /\ cc_deleted' = [cc_deleted EXCEPT ![s] = @ \cup {id}]
        /\ Begun(p, s)
    /\ cc_pc' = [cc_pc EXCEPT ![p] = "iter"]
    /\ UNCHANGED <<tasks, task_id_counter, expenses, expense_id_counter,
                   total_trip_budget, last, issued>>
    /\ UNCHANGED sg_vars

\* One step of the comprehension: the iterator yields the next element of
\* the object as it is now, or is exhausted.
cc_delete_iter(p) ==
    /\ cc_pc[p] = "iter"
    /\ LET s == cc_loc[p].store
           object == IF cc_loc[p].shared THEN List(s) ELSE cc_loc[p].lst
           k == cc_loc[p].k
       IN  IF k < Len(object)
           THEN /\ cc_loc' = [cc_loc EXCEPT
                               ![p].k = k + 1,
                               ![p].acc = IF Keeps(IdOf(s, object[k + 1]), cc_loc[p].id)
                                          THEN Append(@, object[k + 1]) ELSE @]
                /\ UNCHANGED cc_pc
           ELSE /\ cc_pc' = [cc_pc EXCEPT ![p] = "rebind"]
                /\ UNCHANGED cc_loc
    /\ UNCHANGED <<tasks, task_id_counter, expenses, expense_id_counter,
                   total_trip_budget, last, issued, nreq, cc_raced, cc_deleted>>
    /\ UNCHANGED sg_vars

\* tasks = [...] / expenses = [...]: the global is bound to the new list;
\* a thread that holds the old object keeps it.  The handler returns.
cc_delete_rebind(p) ==
    /\ cc_pc[p] = "rebind"
    /\ LET s == cc_loc[p].store
           q == Other(p)
       IN  /\ IF s = "tasks"
              THEN tasks' = cc_loc[p].acc /\ UNCHANGED expenses
              ELSE expenses' = cc_loc[p].acc /\ UNCHANGED tasks
           /\ cc_loc' = [cc_loc EXCEPT
                           ![p] = NoLocals,
                           ![q] = IF cc_loc[q].store = s /\ cc_loc[q].shared
                                  THEN [@ EXCEPT !.shared = FALSE, !.lst = List(s)]
                                  ELSE @]
    /\ cc_pc' = [cc_pc EXCEPT ![p] = "idle"]
    /\ UNCHANGED <<task_id_counter, expense_id_counter,
                   total_trip_budget, last, issued, nreq, cc_raced, cc_deleted>>
    /\ UNCHANGED sg_vars

CcNext ==
    \E p \in Procs :
        \/ cc_add_task(p)
        \/ cc_add_expense(p)
        \/ cc_add_getlist(p)
        \/ cc_add_insert(p)
        \/ cc_add_load(p)
        \/ cc_add_store(p)
        \/ cc_delete(p)
        \/ cc_delete_iter(p)
        \/ cc_delete_rebind(p)

CcSpec == Init /\ [][CcNext]_vars

\* Both threads have returned.
AllReturned == \A p \in Procs : cc_pc[p] = "idle"

\* Two records of the list carry one id.
SharesAnId(s) ==
    \E i, j \in 1..Len(List(s)) :
        i # j /\ IdOf(s, List(s)[i]) = IdOf(s, List(s)[j])

\* C25: with no mutual exclusion, two add_task requests served at once can
\* end with two stored tasks of one id, and so can two add_expense requests;
\* a store holds two records of one id only after requests on it overlapped.
C25_DuplicateIdsByRace ==
    \A s \in Stores : SharesAnId(s) => cc_raced[s]

\* Two add_task requests were served at once, then two add_expense
\* requests, with no delete, and all have returned: the two tasks stored
\* carry the id 1 and so do the two expenses.
C25_Witness ==
    /\ AllReturned
    /\ cc_deleted = [tasks |-> {}, expenses |-> {}]
    /\ Len(tasks) = 2
    /\ tasks[1].task_id = <<"1">>
    /\ tasks[2].task_id = <<"1">>
    /\ Len(expenses) = 2
    /\ expenses[1].expense_id = <<"1">>
    /\ expenses[2].expense_id = <<"1">>

\* An id was handed to an add_task that has returned, no delete was ever
\* sent for it, and no stored task carries it.
LostTask ==
    /\ AllReturned
    /\ \E id \in issued.tasks :
        /\ id \notin cc_deleted.tasks
        /\ \A i \in 1..Len(tasks) : tasks[i].task_id # id

\* C26: with no mutual exclusion, a delete_task served at once with an
\* add_task can lose the task added: add_task returned after valid input,
\* the task was never deleted, and it is not in the task list; a task is
\* lost only after requests on the task store overlapped.
C26_LostAddByRace ==
    LostTask => cc_raced.tasks

\* After task 1 was stored, a delete of the id 'x' and an add_task were
\* served at once: task 2 is lost, task 1 is kept.
C26_Witness ==
    /\ LostTask
    /\ issued.tasks = {<<"1">>, <<"2">>}
    /\ cc_deleted = [tasks |-> {<<"x">>}, expenses |-> {}]
    /\ Len(tasks) = 1
    /\ tasks[1].task_id = <<"1">>
    /\ task_id_counter = 3

====
